---- MODULE Spec2Model ----
(***************************************************************************)
(* The rate limiter of miles/rate_limiter.py: the RateLimiter facade       *)
(* (is_allowed, get_stats), its in-memory backend (_check_local_limit) and *)
(* its Redis backend (_check_redis_limit), the latter both as one          *)
(* uninterrupted call and as the sequence of round trips to the shared     *)
(* store that other processes can interleave with and that can raise.      *)
(*                                                                         *)
(* Time is time.time() in whole seconds.  A Redis sorted set written by    *)
(* zadd(key, {str(t): t}) has the member str(t) determined by its score,   *)
(* so it is a set of scores.  A Redis string written by decrby/setex holds *)
(* an integer; get returns it as a non-empty string (truthy, also "0")     *)
(* and int() parses it back, so the value is kept as the integer and       *)
(* absence (None) is kept apart from it.                                   *)
(***************************************************************************)
EXTENDS Integers, Sequences, FiniteSets, TLC

\* ------------------------------------------------------------------ bounds
MaxTime == 3        \* the clock runs over 0..MaxTime
MaxCalls == 4       \* calls recorded per run of the sequential specification
MaxRequests == 2    \* policies have requests in 1..MaxRequests
MaxWindow == 2      \* policies have window in 1..MaxWindow
MaxBurst == 2       \* policies have burst in 0..MaxBurst
MaxFailoverCalls == 3     \* calls of the process in the failover specification
MaxConcurrentCalls == 2   \* calls per process in the concurrent specification
ScenarioMaxTime == 11     \* the clock of the scenario specification
ScenarioCalls == 5        \* calls recorded per run of the scenario specification
MaxScopeEvents == 4       \* entries and exits recorded per run of the scope specification
ScopeMaxTime == 2         \* the clock of the scope specification
MaxConfigEvents == 3      \* set_limit calls and checks per run of the policy specification
ConfigMaxTime == 1        \* the clock of the policy specification
MaxKeyCalls == 3          \* checks per run of the key specification
MaxCoroutineCalls == 2    \* checks per coroutine in the coroutine specification
CoMaxTime == 1            \* the clock of the coroutine specification
MaxSourceCalls == 3       \* add/remove calls per run of the source store specification
MaxToken == 4             \* remove is called with the numeric tokens "0".."4"

VARIABLES
    now,                  \* time.time()
    limits,               \* RateLimiter.limits: limit type -> RateLimit
    has_redis,            \* per limiter instance: self.redis is not None
    local_buckets,        \* per limiter instance: key -> deque of timestamps
    local_burst_tokens,   \* per limiter instance: key -> int
    redis,                \* the shared store: key -> value with its expiry
    pc,                   \* per limiter instance: the round trip its call is at
    frame,                \* per limiter instance: the locals of its call
    result,               \* per limiter instance: what its last call returned
    ncalls,               \* per limiter instance: the calls it has started
    yaml_file,            \* SourceStore: the file at yaml_path
    hist                  \* the calls made so far, in order (history variable)

vars == <<now, limits, has_redis, local_buckets, local_burst_tokens, redis,
          pc, frame, result, ncalls, yaml_file, hist>>

\* ------------------------------------------------------------ python dicts
EmptyDict == [k \in {} |-> 0]
DictGet(d, k, default) == IF k \in DOMAIN d THEN d[k] ELSE default
DictSet(d, k, v) == [x \in (DOMAIN d) \cup {k} |-> IF x = k THEN v ELSE d[x]]
DictDel(d, k) == [x \in (DOMAIN d) \ {k} |-> d[x]]

Min(a, b) == IF a <= b THEN a ELSE b
Max(a, b) == IF a >= b THEN a ELSE b
SetMin(S) == CHOOSE x \in S : \A y \in S : x <= y

\* -------------------------------------------------------------- decisions
\* The metadata dict of a decision.  retry_after is present only on a denial
\* (where it is >= 1); NoRetry stands for its absence.  burst_used is present
\* (True) only on the burst path; FALSE stands for its absence.
NoRetry == 0
Decision(allowed, remaining, reset_time, retry_after, burst_used) ==
    [allowed |-> allowed, remaining |-> remaining, reset_time |-> reset_time,
     retry_after |-> retry_after, burst_used |-> burst_used]

RateLimit(requests, window, burst) ==
    [requests |-> requests, window |-> window, burst |-> burst]

\* The key of a (limit type, identifier) pair.
LimiterKey(limit_type, identifier) ==
    "rate_limit:" \o limit_type \o ":" \o identifier

BurstKey(key) == key \o ":burst"

\* ------------------------------------------------------------ local backend
\* while bucket and bucket[0] < window_start: bucket.popleft()
\* Mutant: an if in place of the while, so at most one entry is dropped.
PruneLocalOnce(bucket, window_start) ==
    IF bucket # <<>> /\ Head(bucket) < window_start THEN Tail(bucket) ELSE bucket

RECURSIVE PruneLocal(_, _)
PruneLocal(bucket, window_start) ==
    IF bucket # <<>> /\ Head(bucket) < window_start
    THEN PruneLocal(Tail(bucket), window_start)
    ELSE bucket

\* for _ in range(cost): bucket.append(current_time)
RECURSIVE AppendTimes(_, _, _)
AppendTimes(bucket, current_time, cost) ==
    IF cost <= 0 THEN bucket
    ELSE AppendTimes(Append(bucket, current_time), current_time, cost - 1)

\* Mutant: the burst path is taken only with tokens to spare.
LocalBurstAdmitsStrict(burst_tokens, cost) == burst_tokens > cost

LocalBurstAdmits(burst_tokens, cost) == burst_tokens >= cost

\* Mutant: the regular path compares the count alone, not count + cost.
LocalRegularAdmitsIgnoringCost(count, cost, limit) == count < limit.requests

\* Mutant: the regular path admits only below the limit.
LocalRegularAdmitsBelow(count, cost, limit) == count + cost < limit.requests

LocalRegularAdmits(count, cost, limit) == count + cost <= limit.requests

LocalRetryAfter(bucket, limit, current_time) ==
    LET retry_after ==
            IF bucket # <<>>
            THEN Min(limit.window, limit.window - (current_time - Head(bucket)))
            ELSE limit.window
    IN  Max(1, retry_after)

\* _check_local_limit on one instance's dicts: the dicts after the call and
\* the decision it returns.
check_local_limit(buckets, tokens, key, limit, cost, current_time) ==
    LET window_start == current_time - limit.window
        bucket == PruneLocal(DictGet(buckets, key, <<>>), window_start)
        burst_tokens == DictGet(tokens, key, limit.burst)
    IN  IF LocalBurstAdmits(burst_tokens, cost)
        THEN LET b2 == Append(bucket, current_time)
             IN  [buckets |-> DictSet(buckets, key, b2),
                  tokens |-> DictSet(tokens, key, burst_tokens - cost),
                  ret |-> Decision(TRUE, limit.requests - Len(b2),
                                   current_time + limit.window, NoRetry, TRUE)]
        ELSE IF LocalRegularAdmits(Len(bucket), cost, limit)
        THEN LET b2 == AppendTimes(bucket, current_time, cost)
             IN  [buckets |-> DictSet(buckets, key, b2),
                  tokens |-> DictSet(tokens, key, limit.burst),
                  ret |-> Decision(TRUE, limit.requests - Len(b2),
                                   current_time + limit.window, NoRetry, FALSE)]
        ELSE [buckets |-> DictSet(buckets, key, bucket),
              tokens |-> tokens,
              ret |-> Decision(FALSE, 0, current_time + limit.window,
                               LocalRetryAfter(bucket, limit, current_time),
                               FALSE)]

\* ------------------------------------------------------- the shared store
\* A stored value: a sorted set (the set of its scores) or a string holding
\* an integer, with the time it expires at (NoExpiry: no TTL set).
NoExpiry == -1
ZSetValue(scores, exp) == [kind |-> "zset", zset |-> scores, str |-> 0, exp |-> exp]
StrValue(n, exp) == [kind |-> "string", zset |-> {}, str |-> n, exp |-> exp]

\* The store as the server sees it at time t: expired keys are gone.
Live(r, t) ==
    [k \in {x \in DOMAIN r : r[x].exp = NoExpiry \/ r[x].exp > t} |-> r[k]]

\* ZREMRANGEBYSCORE key lo hi (both ends inclusive); an emptied set is deleted.
ZRemRangeByScore(r, key, lo, hi) ==
    IF key \notin DOMAIN r THEN r
    ELSE LET kept == {s \in r[key].zset : ~(lo <= s /\ s <= hi)}
         IN  IF kept = {} THEN DictDel(r, key)
             ELSE DictSet(r, key, ZSetValue(kept, r[key].exp))

ZCard(r, key) == IF key \in DOMAIN r THEN Cardinality(r[key].zset) ELSE 0

\* ZADD key score member, the member being str(score).
ZAdd(r, key, score) ==
    IF key \in DOMAIN r
    THEN DictSet(r, key, ZSetValue(r[key].zset \cup {score}, r[key].exp))
    ELSE DictSet(r, key, ZSetValue({score}, NoExpiry))

\* DECRBY key n: a missing key counts as 0; the TTL is kept.
DecrBy(r, key, n) ==
    IF key \in DOMAIN r
    THEN DictSet(r, key, StrValue(r[key].str - n, r[key].exp))
    ELSE DictSet(r, key, StrValue(0 - n, NoExpiry))

\* EXPIRE key ttl at server time t: nothing happens to a missing key.
Expire(r, key, ttl, t) ==
    IF key \in DOMAIN r THEN DictSet(r, key, [r[key] EXCEPT !.exp = t + ttl])
    ELSE r

\* SETEX key ttl value at server time t.
SetEx(r, key, ttl, value, t) == DictSet(r, key, StrValue(value, t + ttl))

\* ------------------------------------------------------- Redis backend
\* zrange(key, 0, 0, withscores=True): the lowest score, if there is one.
HasOldest(r, key) == key \in DOMAIN r /\ r[key].zset # {}
OldestScore(r, key) == SetMin(r[key].zset)

\* First pipeline: zremrangebyscore(key, 0, window_start); zcard(key).
RedisPipe1(r, key, limit, current_time) ==
    LET window_start == current_time - limit.window
        r1 == ZRemRangeByScore(r, key, 0, window_start)
    IN  [redis |-> r1, current_count |-> ZCard(r1, key)]

\* int(self.redis.get(burst_key) or limit.burst): a stored value is a
\* non-empty string, so only a missing key yields limit.burst.
RedisReadBurst(r, key, limit) ==
    IF BurstKey(key) \in DOMAIN r THEN r[BurstKey(key)].str ELSE limit.burst

RedisBurstAdmits(burst_tokens, cost) == burst_tokens > 0 /\ cost <= burst_tokens

RedisRegularAdmits(current_count, cost, limit) ==
    current_count + cost <= limit.requests

\* Burst pipeline: decrby, expire, zadd, expire (server time srv).
RedisBurstPipe(r, key, limit, cost, current_time, srv) ==
    LET r1 == DecrBy(r, BurstKey(key), cost)
        r2 == Expire(r1, BurstKey(key), limit.window, srv)
        r3 == ZAdd(r2, key, current_time)
    IN  Expire(r3, key, limit.window, srv)

\* for _ in range(cost): pipe.zadd(key, {str(current_time): current_time})
RECURSIVE ZAddTimes(_, _, _, _)
ZAddTimes(r, key, current_time, cost) ==
    IF cost <= 0 THEN r
    ELSE ZAddTimes(ZAdd(r, key, current_time), key, current_time, cost - 1)

\* Regular pipeline: cost zadds, expire.
RedisRegularPipe(r, key, limit, cost, current_time, srv) ==
    Expire(ZAddTimes(r, key, current_time, cost), key, limit.window, srv)

RedisNeedsRefill(burst_tokens, limit) == burst_tokens < limit.burst

\* self.redis.setex(burst_key, limit.window, limit.burst)
RedisRefill(r, key, limit, srv) ==
    SetEx(r, BurstKey(key), limit.window, limit.burst, srv)

RedisRetryAfter(r, key, limit, current_time) ==
    LET retry_after ==
            IF HasOldest(r, key)
            THEN Min(limit.window,
                     limit.window - (current_time - OldestScore(r, key)))
            ELSE limit.window
    IN  Max(1, retry_after)

RedisBurstDecision(limit, current_count, current_time) ==
    Decision(TRUE, limit.requests - current_count,
             current_time + limit.window, NoRetry, TRUE)

RedisRegularDecision(limit, current_count, cost, current_time) ==
    Decision(TRUE, limit.requests - current_count - cost,
             current_time + limit.window, NoRetry, FALSE)

RedisDenyDecision(r, key, limit, current_time) ==
    Decision(FALSE, 0, current_time + limit.window,
             RedisRetryAfter(r, key, limit, current_time), FALSE)

\* _check_redis_limit run without interruption and without a store error:
\* the store after the call and the decision it returns.
check_redis_limit(r, key, limit, cost, current_time) ==
    LET p1 == RedisPipe1(r, key, limit, current_time)
        current_count == p1.current_count
        burst_tokens == RedisReadBurst(p1.redis, key, limit)
    IN  IF RedisBurstAdmits(burst_tokens, cost)
        THEN [redis |-> RedisBurstPipe(p1.redis, key, limit, cost,
                                       current_time, current_time),
              ret |-> RedisBurstDecision(limit, current_count, current_time)]
        ELSE IF RedisRegularAdmits(current_count, cost, limit)
        THEN LET r2 == RedisRegularPipe(p1.redis, key, limit, cost,
                                        current_time, current_time)
             IN  [redis |-> IF RedisNeedsRefill(burst_tokens, limit)
                            THEN RedisRefill(r2, key, limit, current_time)
                            ELSE r2,
                  ret |-> RedisRegularDecision(limit, current_count, cost,
                                               current_time)]
        ELSE [redis |-> p1.redis,
              ret |-> RedisDenyDecision(p1.redis, key, limit, current_time)]

\* ------------------------------------------------------------------ facade
\* Mutant: a category without a policy is denied.
NoLimitDenies(t) == Decision(FALSE, 0, t + 60, 60, FALSE)

\* return True, {"remaining": 999, "reset_time": time.time() + 60}
NoLimitDecision(t) == Decision(TRUE, 999, t + 60, NoRetry, FALSE)

\* is_allowed on instance p, run without interruption and without a store
\* error: the instance's dicts, the store and the decision afterwards.
is_allowed(p, limit_type, identifier, cost) ==
    LET key == LimiterKey(limit_type, identifier)
    IN  IF limit_type \notin DOMAIN limits
        THEN [buckets |-> local_buckets[p], tokens |-> local_burst_tokens[p],
              redis |-> redis, ret |-> NoLimitDecision(now)]
        ELSE IF has_redis[p]
        THEN LET c == check_redis_limit(redis, key, limits[limit_type], cost, now)
             IN  [buckets |-> local_buckets[p],
                  tokens |-> local_burst_tokens[p],
                  redis |-> c.redis, ret |-> c.ret]
        ELSE LET c == check_local_limit(local_buckets[p], local_burst_tokens[p],
                                        key, limits[limit_type], cost, now)
             IN  [buckets |-> c.buckets, tokens |-> c.tokens,
                  redis |-> redis, ret |-> c.ret]

\* ------------------------------------------------------------ inputs
LimitTypes == {"telegram_command"}
Identifiers == {"global"}
\* The costs is_allowed is called with (get_stats passes 0).
Costs == {1, 2}
Policies ==
    {RateLimit(r, w, b) : r \in 1..MaxRequests, w \in 1..MaxWindow,
                          b \in 0..MaxBurst}

\* The file at yaml_path: whether it exists and the list it holds.
YamlFile(exists, data) == [exists |-> exists, data |-> data]
NoFile == YamlFile(FALSE, <<>>)

IdleFrame ==
    [key |-> "", limit |-> RateLimit(1, 1, 0), cost |-> 0, current_time |-> 0,
     current_count |-> 0, burst_tokens |-> 0, fell_back |-> FALSE,
     raised |-> FALSE,
     entry |-> [redis |-> EmptyDict, buckets |-> EmptyDict, tokens |-> EmptyDict]]

NoResult == Decision(TRUE, 0, 0, NoRetry, FALSE)

\* The state after construction of the instances in flags (instance ->
\* whether it was given a Redis client), under one of the given policies.
InitWith(flags, policies) ==
    /\ now = 0
    /\ limits \in {[lt \in LimitTypes |-> pol] : pol \in policies}
    /\ has_redis = flags
    /\ local_buckets = [p \in DOMAIN flags |-> EmptyDict]
    /\ local_burst_tokens = [p \in DOMAIN flags |-> EmptyDict]
    /\ redis = EmptyDict
    /\ pc = [p \in DOMAIN flags |-> "idle"]
    /\ frame = [p \in DOMAIN flags |-> IdleFrame]
    /\ result = [p \in DOMAIN flags |-> NoResult]
    /\ ncalls = [p \in DOMAIN flags |-> 0]
    /\ yaml_file = NoFile
    /\ hist = <<>>

\* The clock advances; the store drops the keys whose TTL has run out.
TickTo(max) ==
    /\ now < max
    /\ now' = now + 1
    /\ redis' = Live(redis, now + 1)
    /\ UNCHANGED <<limits, has_redis, yaml_file, local_buckets, local_burst_tokens,
                   pc, frame, result, ncalls, hist>>

Tick == TickTo(MaxTime)

\* ------------------------------------------- sequential use, two limiters
\* One limiter without a Redis client ("local") and one with a healthy one
\* ("shared") are given the same calls at the same times.
HistEntry(op, limit_type, identifier, cost, l, s) ==
    LET key == LimiterKey(limit_type, identifier)
        limit == limits[limit_type]
    IN  [op |-> op, key |-> key, limit |-> limit, t |-> now, cost |-> cost,
         local |-> l.ret, shared |-> s.ret,
         local_count |-> Len(PruneLocal(DictGet(local_buckets["local"], key, <<>>),
                                        now - limit.window)),
         shared_count |-> RedisPipe1(redis, key, limit, now).current_count,
         local_tokens |-> DictGet(l.tokens, key, limit.burst),
         shared_tokens |-> RedisReadBurst(s.redis, key, limit)]

CallBoth(op, limit_type, identifier, cost, budget) ==
    /\ Len(hist) < budget
    /\ LET l == is_allowed("local", limit_type, identifier, cost)
           s == is_allowed("shared", limit_type, identifier, cost)
       IN  /\ local_buckets' = [local_buckets EXCEPT !["local"] = l.buckets]
           /\ local_burst_tokens' = [local_burst_tokens EXCEPT !["local"] = l.tokens]
           /\ redis' = s.redis
           /\ result' = [result EXCEPT !["local"] = l.ret, !["shared"] = s.ret]
           /\ hist' = Append(hist, HistEntry(op, limit_type, identifier, cost, l, s))
    /\ UNCHANGED <<now, limits, has_redis, yaml_file, pc, frame, ncalls>>

IsAllowed(limit_type, identifier, cost) ==
    CallBoth("is_allowed", limit_type, identifier, cost, MaxCalls)

\* get_stats: is_allowed with cost=0.
GetStats(limit_type, identifier) ==
    CallBoth("get_stats", limit_type, identifier, 0, MaxCalls)

Init == InitWith([p \in {"local", "shared"} |-> p = "shared"], Policies)

Next ==
    \/ Tick
    \/ \E lt \in LimitTypes, id \in Identifiers, cost \in Costs :
           IsAllowed(lt, id, cost)
    \/ \E lt \in LimitTypes, id \in Identifiers : GetStats(lt, id)

Spec == Init /\ [][Next]_vars

\* The same two limiters under the policy (requests=2, window=10, burst=1),
\* given cost-1 checks only, with a clock that runs past the window.
ScenarioPolicy == RateLimit(2, 10, 1)

InitScenario ==
    InitWith([p \in {"local", "shared"} |-> p = "shared"], {ScenarioPolicy})

NextScenario ==
    \/ TickTo(ScenarioMaxTime)
    \/ \E lt \in LimitTypes, id \in Identifiers :
           CallBoth("is_allowed", lt, id, 1, ScenarioCalls)

SpecScenario == InitScenario /\ [][NextScenario]_vars

\* --------------------------------- a call as its round trips to the store
\* A limiter with a Redis client runs _check_redis_limit as separate round
\* trips (pipe.execute(), get, setex, zrange); between two of them the clock
\* can advance and another process can use the store, and each can raise.
RedisOps == {"pipe1", "get_burst", "burst_pipe", "regular_pipe", "setex", "zrange"}

\* The call of p ends: it returns ret, or (raised) an exception leaves it.
Finish(p, ret, fell_back, raised) ==
    /\ result' = [result EXCEPT ![p] = ret]
    /\ pc' = [pc EXCEPT ![p] = "idle"]
    /\ frame' = [frame EXCEPT ![p].fell_back = fell_back, ![p].raised = raised]

\* is_allowed up to the start of _check_redis_limit: current_time is read.
Call(p, limit_type, identifier, cost, budget) ==
    /\ pc[p] = "idle"
    /\ has_redis[p]
    /\ limit_type \in DOMAIN limits
    /\ ncalls[p] < budget
    /\ frame' = [frame EXCEPT ![p] =
           [key |-> LimiterKey(limit_type, identifier),
            limit |-> limits[limit_type], cost |-> cost, current_time |-> now,
            current_count |-> 0, burst_tokens |-> 0,
            fell_back |-> FALSE, raised |-> FALSE,
            entry |-> [redis |-> redis, buckets |-> local_buckets[p],
                       tokens |-> local_burst_tokens[p]]]]
    /\ pc' = [pc EXCEPT ![p] = "pipe1"]
    /\ ncalls' = [ncalls EXCEPT ![p] = ncalls[p] + 1]
    /\ UNCHANGED <<now, limits, has_redis, yaml_file, local_buckets, local_burst_tokens,
                   redis, result, hist>>

StepPipe1(p) ==
    /\ pc[p] = "pipe1"
    /\ LET f == frame[p]
           o == RedisPipe1(redis, f.key, f.limit, f.current_time)
       IN  /\ redis' = o.redis
           /\ frame' = [frame EXCEPT ![p].current_count = o.current_count]
    /\ pc' = [pc EXCEPT ![p] = "get_burst"]
    /\ UNCHANGED <<ncalls, now, limits, has_redis, yaml_file, local_buckets, local_burst_tokens,
                   result, hist>>

StepGetBurst(p) ==
    /\ pc[p] = "get_burst"
    /\ LET f == frame[p]
           burst_tokens == RedisReadBurst(redis, f.key, f.limit)
       IN  /\ frame' = [frame EXCEPT ![p].burst_tokens = burst_tokens]
           /\ pc' = [pc EXCEPT ![p] =
                  IF RedisBurstAdmits(burst_tokens, f.cost) THEN "burst_pipe"
                  ELSE IF RedisRegularAdmits(f.current_count, f.cost, f.limit)
                  THEN "regular_pipe"
                  ELSE "zrange"]
    /\ UNCHANGED <<ncalls, now, limits, has_redis, yaml_file, local_buckets, local_burst_tokens,
                   redis, result, hist>>

StepBurstPipe(p) ==
    /\ pc[p] = "burst_pipe"
    /\ LET f == frame[p]
       IN  /\ redis' = RedisBurstPipe(redis, f.key, f.limit, f.cost,
                                      f.current_time, now)
           /\ Finish(p, RedisBurstDecision(f.limit, f.current_count,
                                           f.current_time), FALSE, FALSE)
    /\ UNCHANGED <<ncalls, now, limits, has_redis, yaml_file, local_buckets, local_burst_tokens, hist>>

StepRegularPipe(p) ==
    /\ pc[p] = "regular_pipe"
    /\ LET f == frame[p]
       IN  /\ redis' = RedisRegularPipe(redis, f.key, f.limit, f.cost,
                                        f.current_time, now)
           /\ IF RedisNeedsRefill(f.burst_tokens, f.limit)
              THEN /\ pc' = [pc EXCEPT ![p] = "setex"]
                   /\ UNCHANGED <<result, frame>>
              ELSE Finish(p, RedisRegularDecision(f.limit, f.current_count,
                                                  f.cost, f.current_time), FALSE, FALSE)
    /\ UNCHANGED <<ncalls, now, limits, has_redis, yaml_file, local_buckets, local_burst_tokens, hist>>

StepSetex(p) ==
    /\ pc[p] = "setex"
    /\ LET f == frame[p]
       IN  /\ redis' = RedisRefill(redis, f.key, f.limit, now)
           /\ Finish(p, RedisRegularDecision(f.limit, f.current_count, f.cost,
                                             f.current_time), FALSE, FALSE)
    /\ UNCHANGED <<ncalls, now, limits, has_redis, yaml_file, local_buckets, local_burst_tokens, hist>>

StepZrange(p) ==
    /\ pc[p] = "zrange"
    /\ LET f == frame[p]
       IN  Finish(p, RedisDenyDecision(redis, f.key, f.limit, f.current_time),
                  FALSE, FALSE)
    /\ UNCHANGED <<ncalls, now, limits, has_redis, yaml_file, local_buckets, local_burst_tokens,
                   redis, hist>>

\* Mutant: the except clause logs the error and lets it propagate.
FallbackReraises(p) ==
    [buckets |-> local_buckets[p], tokens |-> local_burst_tokens[p],
     ret |-> result[p], raised |-> TRUE]

\* What the except clause does with the exception of a store operation: it
\* returns the decision of _check_local_limit, which reads the clock again
\* and raises nothing.
Fallback(p) ==
    LET f == frame[p]
        c == check_local_limit(local_buckets[p], local_burst_tokens[p], f.key,
                               f.limit, f.cost, now)
    IN  [buckets |-> c.buckets, tokens |-> c.tokens, ret |-> c.ret,
         raised |-> FALSE]

\* The round trip the call is at raises (it has no effect on the store).
RedisRaises(p) ==
    /\ pc[p] \in RedisOps
    /\ LET c == Fallback(p)
       IN  /\ local_buckets' = [local_buckets EXCEPT ![p] = c.buckets]
           /\ local_burst_tokens' = [local_burst_tokens EXCEPT ![p] = c.tokens]
           /\ Finish(p, c.ret, TRUE, c.raised)
    /\ UNCHANGED <<ncalls, now, limits, has_redis, yaml_file, redis, hist>>

Step(p) ==
    \/ StepPipe1(p)
    \/ StepGetBurst(p)
    \/ StepBurstPipe(p)
    \/ StepRegularPipe(p)
    \/ StepSetex(p)
    \/ StepZrange(p)

\* One process whose store operations can raise.
InitFailover == InitWith([p \in {"p1"} |-> TRUE], Policies)

NextFailover ==
    \/ Tick
    \/ \E p \in DOMAIN pc, lt \in LimitTypes, id \in Identifiers, cost \in Costs :
           Call(p, lt, id, cost, MaxFailoverCalls)
    \/ \E p \in DOMAIN pc : Step(p)
    \/ \E p \in DOMAIN pc : RedisRaises(p)

SpecFailover == InitFailover /\ [][NextFailover]_vars

\* Two processes, each with its own limiter, sharing a healthy store.
ConcurrentPolicies == {RateLimit(1, 60, 0), RateLimit(2, 2, 1)}

InitConcurrent == InitWith([p \in {"p1", "p2"} |-> TRUE], ConcurrentPolicies)

NextConcurrent ==
    \/ Tick
    \/ \E p \in DOMAIN pc, lt \in LimitTypes, id \in Identifiers, cost \in Costs :
           Call(p, lt, id, cost, MaxConcurrentCalls)
    \/ \E p \in DOMAIN pc : Step(p)

SpecConcurrent == InitConcurrent /\ [][NextConcurrent]_vars

\* ------------------------------------------------ limit(): the scoped gate
\* async with limiter.limit(limit_type, identifier, cost): is_allowed on
\* entry; a denial raises RateLimitExceeded before the yield, an admission
\* yields metadata and the block runs; the generator has no code after the
\* yield.  pc[p] = "block" while the block of p's scope runs.

\* Mutant: the gate never raises.
LimitRaisesNever(allowed) == FALSE

\* if not allowed:
LimitRaises(allowed) == ~allowed

\* metadata.get("retry_after", 60)
LimitRetryAfter(metadata) ==
    IF metadata.retry_after = NoRetry THEN 60 ELSE metadata.retry_after

\* RateLimitExceeded(message, retry_after=..., metadata=metadata)
RateLimitExceeded(metadata) ==
    [retry_after |-> LimitRetryAfter(metadata), metadata |-> metadata]

\* The locals of the generator of limit() and the state right after its
\* is_allowed call.
ScopeFrame(key, limit, cost, metadata, entry) ==
    [key |-> key, limit |-> limit, cost |-> cost, current_time |-> now,
     current_count |-> 0, burst_tokens |-> 0, fell_back |-> FALSE,
     raised |-> FALSE, metadata |-> metadata, entry |-> entry]

ScopeEvent(op, via, p, key, decision, raised, exc) ==
    [op |-> op, via |-> via, p |-> p, key |-> key, t |-> now,
     decision |-> decision, raised |-> raised, exc |-> exc]

\* Entry of the scope on instance p; via is "limit" for a direct use and
\* "rate_limit" for the decorator's wrapper, which passes no cost.
LimitEnter(via, p, limit_type, identifier, cost) ==
    /\ pc[p] = "idle"
    /\ Len(hist) < MaxScopeEvents
    /\ LET c == is_allowed(p, limit_type, identifier, cost)
           key == LimiterKey(limit_type, identifier)
           entry == [redis |-> c.redis, buckets |-> c.buckets, tokens |-> c.tokens]
       IN  /\ local_buckets' = [local_buckets EXCEPT ![p] = c.buckets]
           /\ local_burst_tokens' = [local_burst_tokens EXCEPT ![p] = c.tokens]
           /\ redis' = c.redis
           /\ result' = [result EXCEPT ![p] = c.ret]
           /\ frame' = [frame EXCEPT ![p] =
                  ScopeFrame(key, limits[limit_type], cost, c.ret, entry)]
           /\ IF LimitRaises(c.ret.allowed)
              THEN /\ pc' = pc
                   /\ hist' = Append(hist, ScopeEvent("enter", via, p, key, c.ret,
                                         TRUE, RateLimitExceeded(c.ret)))
              ELSE /\ pc' = [pc EXCEPT ![p] = "block"]
                   /\ hist' = Append(hist, ScopeEvent("enter", via, p, key, c.ret,
                                         FALSE, RateLimitExceeded(c.ret)))
    /\ UNCHANGED <<now, limits, has_redis, yaml_file, ncalls>>

Limit(p, limit_type, identifier, cost) ==
    LimitEnter("limit", p, limit_type, identifier, cost)

\* rate_limit(limit_type, identifier_func): async with limiter.limit(
\* limit_type, identifier): return await func(*args, **kwargs)
RateLimitWrapper(p, limit_type, identifier) ==
    LimitEnter("rate_limit", p, limit_type, identifier, 1)

ExitPaths == {"return", "exception", "cancelled"}

\* Mutant: a block left by an exception or a cancellation gives the
\* admission back (the newest timestamp of the key is dropped).
limit_exit_releases(p, how) ==
    LET key == frame[p].key
        bucket == DictGet(local_buckets[p], key, <<>>)
    IN  [buckets |-> IF how # "return" /\ bucket # <<>>
                     THEN DictSet(local_buckets[p], key,
                                  SubSeq(bucket, 1, Len(bucket) - 1))
                     ELSE local_buckets[p],
         tokens |-> local_burst_tokens[p],
         redis |-> IF how # "return" /\ has_redis[p] /\ key \in DOMAIN redis
                   THEN DictDel(redis, key) ELSE redis]

\* What the generator of limit() does when the block is left: nothing.
limit_exit(p, how) ==
    [buckets |-> local_buckets[p], tokens |-> local_burst_tokens[p],
     redis |-> redis]

\* The block of p's scope is left: it completes, raises or is cancelled.
LimitExit(p, how) ==
    /\ pc[p] = "block"
    /\ Len(hist) < MaxScopeEvents
    /\ LET x == limit_exit(p, how)
       IN  /\ local_buckets' = [local_buckets EXCEPT ![p] = x.buckets]
           /\ local_burst_tokens' = [local_burst_tokens EXCEPT ![p] = x.tokens]
           /\ redis' = x.redis
    /\ pc' = [pc EXCEPT ![p] = "idle"]
    /\ hist' = Append(hist, ScopeEvent("exit", how, p, frame[p].key,
                                      frame[p].metadata, how # "return",
                                      RateLimitExceeded(frame[p].metadata)))
    /\ UNCHANGED <<now, limits, has_redis, yaml_file, frame, result, ncalls>>

\* The scope specification runs under one policy with burst and one without.
ScopePolicies == {RateLimit(1, 1, 1), RateLimit(1, 2, 0)}

InitScope ==
    InitWith([p \in {"local", "shared"} |-> p = "shared"], ScopePolicies)

NextScope ==
    \/ TickTo(ScopeMaxTime)
    \/ \E p \in DOMAIN pc, lt \in LimitTypes, id \in Identifiers, cost \in Costs :
           Limit(p, lt, id, cost)
    \/ \E p \in DOMAIN pc, lt \in LimitTypes, id \in Identifiers :
           RateLimitWrapper(p, lt, id)
    \/ \E p \in DOMAIN pc, how \in ExitPaths : LimitExit(p, how)

SpecScope == InitScope /\ [][NextScope]_vars


\* ------------------------------------------------- the policy table
\* Mutant: the new policy is written to every category of the table.
set_limit_everywhere(table, limit_type, limit) ==
    [x \in (DOMAIN table) \cup {limit_type} |-> limit]

\* self.limits[limit_type] = limit
set_limit(table, limit_type, limit) == DictSet(table, limit_type, limit)

ConfigTypes == {"telegram_command", "openai_request"}

\* The policies set_limit is called with: two sound ones, one with zero
\* requests and a positive burst, one with a negative burst.
SoundPolicies == {RateLimit(1, 1, 0), RateLimit(2, 2, 1)}
MisconfiguredPolicies == {RateLimit(0, 1, 1), RateLimit(1, 1, -1)}

ConfigEvent(op, p, limit_type, configured, limit, cost, ret) ==
    [op |-> op, p |-> p, limit_type |-> limit_type, configured |-> configured,
     limit |-> limit, cost |-> cost, t |-> now, ret |-> ret]

SetLimit(limit_type, limit) ==
    /\ Len(hist) < MaxConfigEvents
    /\ limits' = set_limit(limits, limit_type, limit)
    /\ hist' = Append(hist, ConfigEvent("set_limit", "", limit_type, TRUE, limit,
                                        0, NoResult))
    /\ UNCHANGED <<now, has_redis, yaml_file, local_buckets, local_burst_tokens, redis,
                   pc, frame, result, ncalls>>

\* is_allowed on instance p, for a category the table may hold no policy for.
ConfigCheck(p, limit_type, identifier, cost) ==
    /\ Len(hist) < MaxConfigEvents
    /\ LET c == is_allowed(p, limit_type, identifier, cost)
           configured == limit_type \in DOMAIN limits
       IN  /\ local_buckets' = [local_buckets EXCEPT ![p] = c.buckets]
           /\ local_burst_tokens' = [local_burst_tokens EXCEPT ![p] = c.tokens]
           /\ redis' = c.redis
           /\ result' = [result EXCEPT ![p] = c.ret]
           /\ hist' = Append(hist, ConfigEvent("is_allowed", p, limit_type,
                          configured,
                          IF configured THEN limits[limit_type]
                          ELSE RateLimit(0, 0, 0),
                          cost, c.ret))
    /\ UNCHANGED <<now, limits, has_redis, yaml_file, pc, frame, ncalls>>

\* A limiter without and one with a Redis client, whose limits dict holds a
\* policy for telegram_command and none for openai_request (the miss that
\* is_allowed and get_stats test for).
InitConfig ==
    /\ InitWith([p \in {"local", "shared"} |-> p = "shared"], SoundPolicies)
    /\ DOMAIN limits = {"telegram_command"}

NextConfig ==
    \/ TickTo(ConfigMaxTime)
    \/ \E lt \in ConfigTypes, limit \in SoundPolicies \cup MisconfiguredPolicies :
           SetLimit(lt, limit)
    \/ \E p \in DOMAIN pc, lt \in ConfigTypes, id \in Identifiers, cost \in Costs :
           ConfigCheck(p, lt, id, cost)

SpecConfig == InitConfig /\ [][NextConfig]_vars


\* ------------------------------------------- several identifiers, one store
\* A command for one kind of value sent to a key that holds the other kind
\* is answered with a WRONGTYPE error, which redis-py raises.
WrongType(r, key, kind) == key \in DOMAIN r /\ r[key].kind # kind

\* _check_redis_limit run without interruption on a store whose only errors
\* are WRONGTYPE errors: the first pipeline raises when the key holds a
\* string (none of its commands applies), get raises when the burst key
\* holds a sorted set; the except clause then answers from
\* _check_local_limit.  The later commands find the kinds those two checked.
check_redis_or_fallback(r, buckets, tokens, key, limit, cost, current_time) ==
    LET l == check_local_limit(buckets, tokens, key, limit, cost, current_time)
        p1 == RedisPipe1(r, key, limit, current_time)
    IN  IF WrongType(r, key, "zset")
        THEN [buckets |-> l.buckets, tokens |-> l.tokens, redis |-> r,
              ret |-> l.ret, fell_back |-> TRUE]
        ELSE IF WrongType(p1.redis, BurstKey(key), "string")
        THEN [buckets |-> l.buckets, tokens |-> l.tokens, redis |-> p1.redis,
              ret |-> l.ret, fell_back |-> TRUE]
        ELSE LET c == check_redis_limit(r, key, limit, cost, current_time)
             IN  [buckets |-> buckets, tokens |-> tokens, redis |-> c.redis,
                  ret |-> c.ret, fell_back |-> FALSE]

\* Identifiers are caller-supplied strings.
KeyIdentifiers == {"u", "u:burst"}
KeyPolicies == {RateLimit(1, 1, 1), RateLimit(2, 2, 0)}

KeyEvent(p, limit_type, identifier, cost, ret, fell_back) ==
    [p |-> p, limit_type |-> limit_type, identifier |-> identifier,
     key |-> LimiterKey(limit_type, identifier), cost |-> cost, t |-> now,
     ret |-> ret, fell_back |-> fell_back]

\* is_allowed on instance p for one of several identifiers.
KeyCheck(p, limit_type, identifier, cost) ==
    /\ Len(hist) < MaxKeyCalls
    /\ limit_type \in DOMAIN limits
    /\ LET key == LimiterKey(limit_type, identifier)
           l == check_local_limit(local_buckets[p], local_burst_tokens[p], key,
                                  limits[limit_type], cost, now)
           c == IF has_redis[p]
                THEN check_redis_or_fallback(redis, local_buckets[p],
                         local_burst_tokens[p], key, limits[limit_type], cost, now)
                ELSE [buckets |-> l.buckets, tokens |-> l.tokens,
                      redis |-> redis, ret |-> l.ret, fell_back |-> FALSE]
       IN  /\ local_buckets' = [local_buckets EXCEPT ![p] = c.buckets]
           /\ local_burst_tokens' = [local_burst_tokens EXCEPT ![p] = c.tokens]
           /\ redis' = c.redis
           /\ result' = [result EXCEPT ![p] = c.ret]
           /\ hist' = Append(hist, KeyEvent(p, limit_type, identifier, cost,
                                            c.ret, c.fell_back))
    /\ UNCHANGED <<now, limits, has_redis, yaml_file, pc, frame, ncalls>>

InitKeys == InitWith([p \in {"local", "shared"} |-> p = "shared"], KeyPolicies)

NextKeys ==
    \/ Tick
    \/ \E p \in DOMAIN pc, lt \in LimitTypes, id \in KeyIdentifiers, cost \in Costs :
           KeyCheck(p, lt, id, cost)

SpecKeys == InitKeys /\ [][NextKeys]_vars


\* --------------------------------- coroutines of one process, local backend
\* Coroutines c1, c2 of one event loop call is_allowed on the same limiter
\* ("proc", built without a Redis client).  A call is created (its
\* arguments are bound) and later scheduled; once scheduled, is_allowed and
\* the _check_local_limit it awaits run to their return: neither contains an
\* await that suspends, so the event loop runs nothing in between.
Coroutines == {"c1", "c2"}
CoPolicies == {RateLimit(1, 2, 0), RateLimit(1, 1, 1)}

CoFrame(limit_type, identifier, cost, entry) ==
    [limit_type |-> limit_type, identifier |-> identifier, cost |-> cost,
     entry |-> entry]

\* Mutant: the check works on the dicts as they were when the call was
\* created, as if it had read them before a suspension point.
CoReadStale(c) == frame[c].entry

\* The dicts the check of coroutine c reads and writes: the instance's own,
\* as they are when it is scheduled.
CoRead(c) ==
    [buckets |-> local_buckets["proc"], tokens |-> local_burst_tokens["proc"]]

CoSpawn(c, limit_type, identifier, cost) ==
    /\ pc[c] = "idle"
    /\ ncalls[c] < MaxCoroutineCalls
    /\ pc' = [pc EXCEPT ![c] = "ready"]
    /\ ncalls' = [ncalls EXCEPT ![c] = ncalls[c] + 1]
    /\ frame' = [frame EXCEPT ![c] =
           CoFrame(limit_type, identifier, cost,
                   [buckets |-> local_buckets["proc"],
                    tokens |-> local_burst_tokens["proc"]])]
    /\ UNCHANGED <<now, limits, has_redis, yaml_file, local_buckets, local_burst_tokens,
                   redis, result, hist>>

CoEvent(c, key, limit, cost, ret) ==
    [c |-> c, key |-> key, limit |-> limit, cost |-> cost, t |-> now, ret |-> ret]

\* The event loop runs the call of c: is_allowed up to its return.
CoRun(c) ==
    /\ pc[c] = "ready"
    /\ ~has_redis["proc"]
    /\ frame[c].limit_type \in DOMAIN limits
    /\ LET f == frame[c]
           key == LimiterKey(f.limit_type, f.identifier)
           limit == limits[f.limit_type]
           d == CoRead(c)
           r == check_local_limit(d.buckets, d.tokens, key, limit, f.cost, now)
       IN  /\ local_buckets' = [local_buckets EXCEPT !["proc"] = r.buckets]
           /\ local_burst_tokens' = [local_burst_tokens EXCEPT !["proc"] = r.tokens]
           /\ result' = [result EXCEPT ![c] = r.ret]
           /\ hist' = Append(hist, CoEvent(c, key, limit, f.cost, r.ret))
    /\ pc' = [pc EXCEPT ![c] = "idle"]
    /\ UNCHANGED <<now, limits, has_redis, yaml_file, redis, frame, ncalls>>

InitCoroutines ==
    /\ now = 0
    /\ limits \in {[lt \in LimitTypes |-> pol] : pol \in CoPolicies}
    /\ has_redis = [p \in {"proc"} |-> FALSE]
    /\ local_buckets = [p \in {"proc"} |-> EmptyDict]
    /\ local_burst_tokens = [p \in {"proc"} |-> EmptyDict]
    /\ redis = EmptyDict
    /\ pc = [c \in Coroutines |-> "idle"]
    /\ frame = [c \in Coroutines |-> IdleFrame]
    /\ result = [c \in Coroutines |-> NoResult]
    /\ ncalls = [c \in Coroutines |-> 0]
    /\ yaml_file = NoFile
    /\ hist = <<>>

NextCoroutines ==
    \/ TickTo(CoMaxTime)
    \/ \E c \in Coroutines, lt \in LimitTypes, id \in Identifiers, cost \in Costs :
           CoSpawn(c, lt, id, cost)
    \/ \E c \in Coroutines : CoRun(c)

SpecCoroutines == InitCoroutines /\ [][NextCoroutines]_vars


\* ------------------------------------------------- miles/source_store.py
\* SourceStore keeps the set "sources" in Redis when it has a client
\* (has_redis["store"]) and mirrors it to the YAML file; without a client
\* the YAML file is the store.
UrlOrder == <<"http://a.com", "http://b.com", "https://c.com">>
Urls == {UrlOrder[i] : i \in 1..Len(UrlOrder)}
Range(seq) == {seq[i] : i \in 1..Len(seq)}

\* sorted(S) for a set of the URLs above (UrlOrder lists them in str order).
RECURSIVE SortedFrom(_, _)
SortedFrom(S, i) ==
    IF i > Len(UrlOrder) THEN <<>>
    ELSE (IF UrlOrder[i] \in S THEN <<UrlOrder[i]>> ELSE <<>>)
         \o SortedFrom(S, i + 1)
Sorted(S) == SortedFrom(S, 1)

\* A Redis set.
SetValue(members) == [kind |-> "set", members |-> members, exp |-> NoExpiry]
SMembers(r, key) == IF key \in DOMAIN r THEN r[key].members ELSE {}

\* yaml.safe_load(f) or [], and [] when the file is missing.
ReadYaml(y) == IF y.exists THEN y.data ELSE <<>>

\* all() of a store with (has_r) or without a client.
SourceAll(has_r, r, y) ==
    IF has_r THEN Sorted(SMembers(r, "sources")) ELSE Sorted(Range(ReadYaml(y)))

\* url.startswith("http") and len(url) <= 200
ValidUrl(url) == Len(url) >= 4 /\ SubSeq(url, 1, 4) = "http" /\ Len(url) <= 200

\* add(url): the store afterwards and the value returned.
source_add(has_r, r, y, url) ==
    LET current == SourceAll(has_r, r, y)
    IN  IF ~ValidUrl(url) \/ url \in Range(current)
        THEN [redis |-> r, yaml |-> y, ret |-> FALSE]
        ELSE IF ~has_r
        THEN [redis |-> r,
              yaml |-> YamlFile(TRUE, Sorted(Range(current) \cup {url})),
              ret |-> TRUE]
        ELSE LET r2 == DictSet(r, "sources",
                               SetValue(SMembers(r, "sources") \cup {url}))
             IN  [redis |-> r2,
                  yaml |-> YamlFile(TRUE, SourceAll(has_r, r2, y)),
                  ret |-> TRUE]

\* token.isdigit() and int(token), for the tokens remove is called with.
NumericTokens == {ToString(n) : n \in 0..MaxToken}
IsDigit(token) == token \in NumericTokens
ParseInt(token) == CHOOSE n \in 0..MaxToken : ToString(n) = token

\* all_sources[i] of a Python list: a negative index counts from the end;
\* no element (IndexError) outside -len..len-1.
ListIndexInRange(list, i) == 0 - Len(list) <= i /\ i < Len(list)
ListIndex(list, i) == IF i >= 0 THEN list[i + 1] ELSE list[Len(list) + i + 1]

NoneValue == {}

\* remove(token): the store afterwards and the value returned (a URL as a
\* one-element set, None as the empty set).
source_remove(has_r, r, y, token) ==
    LET all_sources == SourceAll(has_r, r, y)
        unchanged == [redis |-> r, yaml |-> y, ret |-> NoneValue]
    IN  IF IsDigit(token) /\ ~ListIndexInRange(all_sources, ParseInt(token) - 1)
        THEN unchanged
        ELSE LET target == IF IsDigit(token)
                           THEN ListIndex(all_sources, ParseInt(token) - 1)
                           ELSE token
             IN  IF target \notin Range(all_sources) THEN unchanged
                 ELSE IF ~has_r
                 THEN [redis |-> r,
                       yaml |-> YamlFile(TRUE,
                                    Sorted(Range(all_sources) \ {target})),
                       ret |-> {target}]
                 ELSE LET left == SMembers(r, "sources") \ {target}
                          r2 == IF left = {} THEN DictDel(r, "sources")
                                ELSE DictSet(r, "sources", SetValue(left))
                      IN  [redis |-> r2,
                           yaml |-> YamlFile(TRUE, SourceAll(has_r, r2, y)),
                           ret |-> {target}]

SourceEvent(op, arg, before, after, added, removed) ==
    [op |-> op, arg |-> arg, before |-> before, after |-> after,
     added |-> added, removed |-> removed]

SourceAdd(url) ==
    /\ Len(hist) < MaxSourceCalls
    /\ LET h == has_redis["store"]
           c == source_add(h, redis, yaml_file, url)
       IN  /\ redis' = c.redis
           /\ yaml_file' = c.yaml
           /\ hist' = Append(hist, SourceEvent("add", url,
                          SourceAll(h, redis, yaml_file),
                          SourceAll(h, c.redis, c.yaml), c.ret, NoneValue))
    /\ UNCHANGED <<now, limits, has_redis, local_buckets, local_burst_tokens,
                   pc, frame, result, ncalls>>

SourceRemove(token) ==
    /\ Len(hist) < MaxSourceCalls
    /\ LET h == has_redis["store"]
           c == source_remove(h, redis, yaml_file, token)
       IN  /\ redis' = c.redis
           /\ yaml_file' = c.yaml
           /\ hist' = Append(hist, SourceEvent("remove", token,
                          SourceAll(h, redis, yaml_file),
                          SourceAll(h, c.redis, c.yaml), FALSE, c.ret))
    /\ UNCHANGED <<now, limits, has_redis, local_buckets, local_burst_tokens,
                   pc, frame, result, ncalls>>

\* A store constructed over a YAML file that is missing or holds a sorted
\* list of URLs, without a client or with one whose Redis held no "sources"
\* yet (__init__ then loads the file's list into it).
InitSources ==
    /\ now = 0
    /\ limits = EmptyDict
    /\ has_redis \in {[p \in {"store"} |-> b] : b \in BOOLEAN}
    /\ local_buckets = [p \in {"store"} |-> EmptyDict]
    /\ local_burst_tokens = [p \in {"store"} |-> EmptyDict]
    /\ yaml_file \in {NoFile} \cup {YamlFile(TRUE, Sorted(S)) : S \in SUBSET Urls}
    /\ redis = IF has_redis["store"] /\ ReadYaml(yaml_file) # <<>>
               THEN DictSet(EmptyDict, "sources",
                            SetValue(Range(ReadYaml(yaml_file))))
               ELSE EmptyDict
    /\ pc = [p \in {"store"} |-> "idle"]
    /\ frame = [p \in {"store"} |-> IdleFrame]
    /\ result = [p \in {"store"} |-> NoResult]
    /\ ncalls = [p \in {"store"} |-> 0]
    /\ hist = <<>>

NextSources ==
    \/ \E url \in Urls \cup {"ftp://d.com"} : SourceAdd(url)
    \/ \E token \in NumericTokens \cup Urls : SourceRemove(token)

SpecSources == InitSources /\ [][NextSources]_vars


\* ------------------------------------------------ the clock as a float
\* time.time() returns a float.  In this specification now counts ticks of
\* 1/TicksPerSecond second; a policy's window stays in whole seconds, and the
\* timestamps, scores and TTLs are in ticks.
TicksPerSecond == 2
MaxTicks == 4
MaxTickCalls == 3

\* int(num / den): the fraction is cut off, toward zero.
PyInt(num, den) ==
    IF num >= 0 THEN num \div den ELSE -((-num) \div den)

\* The policy with its window in ticks.
InTicks(limit) == [limit EXCEPT !.window = limit.window * TicksPerSecond]

\* Mutant: the remaining time is rounded up to whole seconds.
LocalRetryAfterCeil(bucket, limit, ticks) ==
    LET left == limit.window * TicksPerSecond - (ticks - Head(bucket))
        retry_after ==
            IF bucket # <<>>
            THEN Min(limit.window,
                     (left + TicksPerSecond - 1) \div TicksPerSecond)
            ELSE limit.window
    IN  Max(1, retry_after)

\* max(1, int(min(limit.window, int(limit.window - (current_time - bucket[0])))))
\* with current_time and bucket[0] in ticks; the result is in seconds.
LocalRetryAfterInt(bucket, limit, ticks) ==
    LET retry_after ==
            IF bucket # <<>>
            THEN Min(limit.window,
                     PyInt(limit.window * TicksPerSecond - (ticks - Head(bucket)),
                           TicksPerSecond))
            ELSE limit.window
    IN  Max(1, retry_after)

RedisRetryAfterInt(r, key, limit, ticks) ==
    LET retry_after ==
            IF HasOldest(r, key)
            THEN Min(limit.window,
                     PyInt(limit.window * TicksPerSecond
                             - (ticks - OldestScore(r, key)),
                           TicksPerSecond))
            ELSE limit.window
    IN  Max(1, retry_after)

\* _check_local_limit at a clock reading of ticks.
check_local_limit_at(buckets, tokens, key, limit, cost, ticks) ==
    LET c == check_local_limit(buckets, tokens, key, InTicks(limit), cost, ticks)
    IN  IF c.ret.allowed THEN c
        ELSE [c EXCEPT !.ret.retry_after =
                           LocalRetryAfterInt(c.buckets[key], limit, ticks)]

\* _check_redis_limit at a clock reading of ticks.
check_redis_limit_at(r, key, limit, cost, ticks) ==
    LET c == check_redis_limit(r, key, InTicks(limit), cost, ticks)
    IN  IF c.ret.allowed THEN c
        ELSE [c EXCEPT !.ret.retry_after =
                           RedisRetryAfterInt(c.redis, key, limit, ticks)]

\* What one check left: the decision and the key's timestamps after it.
TickEvent(key, limit, cost, l, s) ==
    [op |-> "is_allowed", key |-> key, limit |-> limit, t |-> now, cost |-> cost,
     local |-> l.ret, shared |-> s.ret,
     local_bucket |-> l.buckets[key],
     shared_zset |-> IF key \in DOMAIN s.redis THEN s.redis[key].zset ELSE {}]

\* is_allowed on the limiter without a Redis client and on the one with a
\* healthy client, at the same clock reading.
CheckAt(limit_type, identifier, cost) ==
    /\ Len(hist) < MaxTickCalls
    /\ LET key == LimiterKey(limit_type, identifier)
           limit == limits[limit_type]
           l == check_local_limit_at(local_buckets["local"],
                                     local_burst_tokens["local"],
                                     key, limit, cost, now)
           s == check_redis_limit_at(redis, key, limit, cost, now)
       IN  /\ local_buckets' = [local_buckets EXCEPT !["local"] = l.buckets]
           /\ local_burst_tokens' = [local_burst_tokens EXCEPT !["local"] = l.tokens]
           /\ redis' = s.redis
           /\ result' = [result EXCEPT !["local"] = l.ret, !["shared"] = s.ret]
           /\ hist' = Append(hist, TickEvent(key, limit, cost, l, s))
    /\ UNCHANGED <<now, limits, has_redis, yaml_file, pc, frame, ncalls>>

InitTicks == InitWith([p \in {"local", "shared"} |-> p = "shared"], Policies)

NextTicks ==
    \/ TickTo(MaxTicks)
    \/ \E lt \in LimitTypes, id \in Identifiers, cost \in Costs :
           CheckAt(lt, id, cost)

SpecTicks == InitTicks /\ [][NextTicks]_vars

\* --------------------------------------- the /ask and /chat handlers
\* Both handlers enter two scopes in one async with: TELEGRAM_COMMAND with
\* cost 1, then SOURCE_SCAN with cost 3 (/ask) or OPENAI_REQUEST with cost 2
\* (/chat), both for the user's id, and answer RateLimitExceeded with the
\* "please wait" reply.
MaxCommands == 3
CommandMaxTime == 2

Users == {"42"}
CommandTypes == {"telegram_command", "source_scan", "openai_request"}

\* The policy tables the handlers run under (all three categories configured).
CommandLimits ==
    {[lt \in CommandTypes |->
         IF lt = "telegram_command" THEN a
         ELSE IF lt = "source_scan" THEN b ELSE c] :
     a \in {RateLimit(2, 1, 0), RateLimit(1, 1, 1)},
     b \in {RateLimit(3, 2, 0), RateLimit(5, 2, 2)},
     c \in {RateLimit(2, 2, 0), RateLimit(2, 1, 2)}}

\* What a scope entry reads and writes: the instance's dicts and the store.
LimiterState(buckets, tokens, r) ==
    [buckets |-> buckets, tokens |-> tokens, redis |-> r]

\* Entry of limiter.limit(limit_type, identifier, cost) on instance p in state
\* st: the state after its is_allowed call, the decision, and whether
\* RateLimitExceeded is raised.
limit_enter(st, p, limit_type, identifier, cost) ==
    LET key == LimiterKey(limit_type, identifier)
        limit == limits[limit_type]
    IN  IF has_redis[p]
        THEN LET c == check_redis_limit(st.redis, key, limit, cost, now)
             IN  [state |-> LimiterState(st.buckets, st.tokens, c.redis),
                  ret |-> c.ret, raised |-> LimitRaises(c.ret.allowed)]
        ELSE LET c == check_local_limit(st.buckets, st.tokens, key, limit,
                                        cost, now)
             IN  [state |-> LimiterState(c.buckets, c.tokens, st.redis),
                  ret |-> c.ret, raised |-> LimitRaises(c.ret.allowed)]

\* async with (limit(TELEGRAM_COMMAND, user), limit(second_type, user, cost)):
\* the second scope is entered only when the first admitted; when the second
\* raises, the first scope is left by the exception, which changes nothing
\* (limit_exit).  rejected_by is 0 when the block runs, else the scope that
\* raised.
async_with_limits(st, p, user, second_type, second_cost) ==
    LET first == limit_enter(st, p, "telegram_command", user, 1)
        second == limit_enter(first.state, p, second_type, user, second_cost)
    IN  IF first.raised
        THEN [state |-> first.state, rejected_by |-> 1,
              exc |-> RateLimitExceeded(first.ret)]
        ELSE IF second.raised
        THEN [state |-> second.state, rejected_by |-> 2,
              exc |-> RateLimitExceeded(second.ret)]
        ELSE [state |-> second.state, rejected_by |-> 0,
              exc |-> RateLimitExceeded(second.ret)]

CommandEvent(op, p, user, second_type, before, x) ==
    [op |-> op, p |-> p, t |-> now, user |-> user,
     first_type |-> "telegram_command", second_type |-> second_type,
     before |-> before, after |-> x.state,
     rejected_by |-> x.rejected_by,
     retry_after |-> IF x.rejected_by = 0 THEN NoRetry ELSE x.exc.retry_after]

\* One command handled from its arrival to the reply or the end of its block.
Command(op, p, user, second_type, second_cost) ==
    /\ Len(hist) < MaxCommands
    /\ LET before == LimiterState(local_buckets[p], local_burst_tokens[p], redis)
           x == async_with_limits(before, p, user, second_type, second_cost)
       IN  /\ local_buckets' = [local_buckets EXCEPT ![p] = x.state.buckets]
           /\ local_burst_tokens' = [local_burst_tokens EXCEPT ![p] = x.state.tokens]
           /\ redis' = x.state.redis
           /\ hist' = Append(hist, CommandEvent(op, p, user, second_type, before, x))
    /\ UNCHANGED <<now, limits, has_redis, yaml_file, pc, frame, result, ncalls>>

Ask(p, user) == Command("ask", p, user, "source_scan", 3)

HandleChat(p, user) == Command("chat", p, user, "openai_request", 2)

InitCommands ==
    /\ now = 0
    /\ limits \in CommandLimits
    /\ has_redis = [p \in {"local", "shared"} |-> p = "shared"]
    /\ local_buckets = [p \in {"local", "shared"} |-> EmptyDict]
    /\ local_burst_tokens = [p \in {"local", "shared"} |-> EmptyDict]
    /\ redis = EmptyDict
    /\ pc = [p \in {"local", "shared"} |-> "idle"]
    /\ frame = [p \in {"local", "shared"} |-> IdleFrame]
    /\ result = [p \in {"local", "shared"} |-> NoResult]
    /\ ncalls = [p \in {"local", "shared"} |-> 0]
    /\ yaml_file = NoFile
    /\ hist = <<>>

NextCommands ==
    \/ TickTo(CommandMaxTime)
    \/ \E p \in DOMAIN pc, user \in Users : Ask(p, user)
    \/ \E p \in DOMAIN pc, user \in Users : HandleChat(p, user)

SpecCommands == InitCommands /\ [][NextCommands]_vars

\* ------------------------------------------------------------------ claims
Backends == {"local", "shared"}
Dec(e, b) == IF b = "local" THEN e.local ELSE e.shared
CountSeen(e, b) == IF b = "local" THEN e.local_count ELSE e.shared_count
TokensLeft(e, b) == IF b = "local" THEN e.local_tokens ELSE e.shared_tokens
IsCheck(e, cost) == e.op = "is_allowed" /\ e.cost = cost

\* hist starts with n cost-1 checks on one key, all at the same instant.
StartsWithInstantChecks(n) ==
    /\ Len(hist) >= n
    /\ \A i \in 1..n : IsCheck(hist[i], 1) /\ hist[i].t = hist[1].t
                       /\ hist[i].key = hist[1].key

\* C1: on a fresh key, once R+B cost-1 checks issued at the same instant have
\* all been admitted, the next cost-1 check at that instant is denied with
\* retry_after in [1, W], on the local and on the shared backend.
C1_SaturationDenies ==
    \A b \in Backends :
        (Len(hist) >= 1 /\
         LET n == hist[1].limit.requests + hist[1].limit.burst
         IN  /\ StartsWithInstantChecks(n + 1)
             /\ \A i \in 1..n : Dec(hist[i], b).allowed)
        => LET n == hist[1].limit.requests + hist[1].limit.burst
               d == Dec(hist[n + 1], b)
           IN  /\ ~d.allowed
               /\ d.retry_after \in 1..hist[1].limit.window

\* C3: the two backends, given the same calls at the same times under the
\* same policy, return the same admit/deny decision at every call.
C3_BackendParity ==
    \A i \in 1..Len(hist) : hist[i].local.allowed = hist[i].shared.allowed

\* The timestamps a key holds within the window ending at t, and the burst
\* tokens a check would find, in given dicts and in a given store.
LocalWindow(buckets, key, limit, t) ==
    PruneLocal(DictGet(buckets, key, <<>>), t - limit.window)
LocalTokens(tokens, key, limit) == DictGet(tokens, key, limit.burst)
SharedWindow(r, key, limit, t) ==
    LET r1 == RedisPipe1(r, key, limit, t).redis
    IN  IF key \in DOMAIN r1 THEN r1[key].zset ELSE {}
SharedTokens(r, key, limit) == RedisReadBurst(r, key, limit)

StatsStep ==
    /\ Len(hist') = Len(hist) + 1
    /\ hist'[Len(hist')].op = "get_stats"

\* C4: get_stats leaves the key's timestamps and burst tokens as they were,
\* on both backends.
C4_StatsIsPureProbe ==
    [][StatsStep =>
        LET e == hist'[Len(hist')]
        IN  /\ LocalWindow(local_buckets'["local"], e.key, e.limit, now)
                 = LocalWindow(local_buckets["local"], e.key, e.limit, now)
            /\ LocalTokens(local_burst_tokens'["local"], e.key, e.limit)
                 = LocalTokens(local_burst_tokens["local"], e.key, e.limit)
            /\ SharedWindow(redis', e.key, e.limit, now)
                 = SharedWindow(redis, e.key, e.limit, now)
            /\ SharedTokens(redis', e.key, e.limit)
                 = SharedTokens(redis, e.key, e.limit)]_vars

\* C7: once call i has left the burst tokens exhausted, a later call j that
\* spends burst (cost >= 1, burst_used) is preceded, after i and up to j
\* itself, by a call that saw current_count < requests.
C7_NoBurstRespend ==
    \A b \in Backends : \A i, j \in 1..Len(hist) :
        (/\ i < j
         /\ hist[i].limit.burst > 0
         /\ TokensLeft(hist[i], b) <= 0
         /\ hist[j].cost >= 1
         /\ Dec(hist[j], b).burst_used)
        => \E k \in (i + 1)..j : CountSeen(hist[k], b) < hist[k].limit.requests

\* C8: a check with cost > requests is admitted only if burst >= cost.
C8_OversizedCost ==
    \A b \in Backends : \A i \in 1..Len(hist) :
        (hist[i].cost > hist[i].limit.requests /\ Dec(hist[i], b).allowed)
        => hist[i].limit.burst >= hist[i].cost

\* A check with cost > requests and burst < cost, made more than a window
\* after an admitted call, denied by both backends.
C8_Witness ==
    /\ Len(hist) >= 3
    /\ hist[3].cost > hist[3].limit.requests
    /\ hist[3].limit.burst < hist[3].cost
    /\ hist[3].t > hist[1].t + hist[3].limit.window
    /\ hist[1].local.allowed /\ hist[1].shared.allowed
    /\ ~hist[3].local.allowed /\ ~hist[3].shared.allowed

\* The time of the first admitted call in the window of call i, as backend
\* b keeps it (the local prune keeps a timestamp equal to window_start, the
\* store's range removal drops it); empty when the window holds none.
FirstAdmittedInWindow(i, b) ==
    LET e == hist[i]
        inWindow == {k \in 1..(i - 1) :
                        /\ Dec(hist[k], b).allowed
                        /\ IF b = "local" THEN hist[k].t >= e.t - e.limit.window
                           ELSE hist[k].t > e.t - e.limit.window}
    IN  IF inWindow = {} THEN {} ELSE {SetMin({hist[k].t : k \in inWindow})}

OnlyUnitChecks == \A i \in 1..Len(hist) : IsCheck(hist[i], 1)

\* C6 as stated: after a denied cost-1 check, the next cost-1 check, made
\* more than W after the first admitted check of the denial's window, is
\* admitted (runs of cost-1 checks only, so no probe or larger cost is
\* involved).
C6_AfterFirstAdmitted ==
    \A b \in Backends : \A j \in 2..Len(hist) :
        (/\ OnlyUnitChecks
         /\ ~Dec(hist[j - 1], b).allowed
         /\ \E t \in FirstAdmittedInWindow(j - 1, b) :
                hist[j].t > t + hist[j].limit.window)
        => Dec(hist[j], b).allowed

LastAdmittedBefore(j, b) ==
    LET adm == {k \in 1..(j - 1) : Dec(hist[k], b).allowed}
    IN  IF adm = {} THEN {} ELSE {hist[CHOOSE k \in adm : \A m \in adm : m <= k].t}

\* C6 amended: after a denied cost-1 check, a cost-1 check made more than W
\* after the last admitted call on the key (of any cost, probes included) is
\* admitted.
C6_AfterLastAdmitted ==
    \A b \in Backends : \A j \in 2..Len(hist) :
        (/\ IsCheck(hist[j - 1], 1) /\ IsCheck(hist[j], 1)
         /\ ~Dec(hist[j - 1], b).allowed
         /\ \E t \in LastAdmittedBefore(j, b) :
                hist[j].t > t + hist[j].limit.window)
        => Dec(hist[j], b).allowed

C6_Witness ==
    /\ Len(hist) >= 3
    /\ IsCheck(hist[Len(hist) - 1], 1) /\ IsCheck(hist[Len(hist)], 1)
    /\ \A b \in Backends :
        /\ ~Dec(hist[Len(hist) - 1], b).allowed
        /\ \E t \in LastAdmittedBefore(Len(hist), b) :
               hist[Len(hist)].t > t + hist[Len(hist)].limit.window
        /\ Dec(hist[Len(hist)], b).allowed

\* The run of the scenario: five cost-1 checks at times 0, 0, 0, 0, 11 on a
\* fresh key under ScenarioPolicy.
ScenarioRun ==
    /\ Len(hist) = 5
    /\ \A i \in 1..4 : IsCheck(hist[i], 1) /\ hist[i].t = 0
    /\ IsCheck(hist[5], 1) /\ hist[5].t = 11
    /\ \A i \in 1..5 : hist[i].limit = ScenarioPolicy

Returned(p) == pc[p] = "idle" /\ ncalls[p] >= 1

\* C2: two processes that each issue one cost-1 check on the same key at
\* the same instant under (requests=1, window=60, burst=0): exactly one is
\* admitted.
C2_ExactlyOneAdmitted ==
    (/\ limits["telegram_command"] = RateLimit(1, 60, 0)
     /\ \A p \in {"p1", "p2"} :
            /\ Returned(p) /\ ncalls[p] = 1 /\ frame[p].cost = 1
            /\ frame[p].current_time = frame["p1"].current_time
            /\ frame[p].key = frame["p1"].key)
    => (result["p1"].allowed # result["p2"].allowed)

\* The timestamps and burst tokens of the key of p's call, at its start
\* (frame[p].entry) and now, in the store and in p's own dicts.
Multiplicity(bucket, t) == Cardinality({i \in 1..Len(bucket) : bucket[i] = t})
NoTimestampAdded(p) ==
    LET f == frame[p]
        before == DictGet(f.entry.buckets, f.key, <<>>)
        after == DictGet(local_buckets[p], f.key, <<>>)
        zbefore == IF f.key \in DOMAIN f.entry.redis
                   THEN f.entry.redis[f.key].zset ELSE {}
        zafter == IF f.key \in DOMAIN redis THEN redis[f.key].zset ELSE {}
    IN  /\ \A i \in 1..Len(after) :
               Multiplicity(after, after[i]) <= Multiplicity(before, after[i])
        /\ zafter \subseteq zbefore
NoTokenRemoved(p) ==
    LET f == frame[p]
    IN  /\ LocalTokens(local_burst_tokens[p], f.key, f.limit)
               >= LocalTokens(f.entry.tokens, f.key, f.limit)
        /\ \/ BurstKey(f.key) \notin DOMAIN redis
           \/ /\ BurstKey(f.key) \in DOMAIN f.entry.redis
              /\ redis[BurstKey(f.key)].str >= f.entry.redis[BurstKey(f.key)].str

\* C5: a call that returned allowed=false has added no timestamp and removed
\* no burst token, in the store or in the local dicts.
C5_DenialChargesNothing ==
    \A p \in DOMAIN pc :
        (Returned(p) /\ ~result[p].allowed)
        => (NoTimestampAdded(p) /\ NoTokenRemoved(p))

\* C10: when a store operation of a call raises, the call returns, without
\* raising, the decision _check_local_limit computes for the call's key,
\* policy and cost on the instance's local state.
C10_FallbackDecides ==
    [][\A p \in DOMAIN pc :
          (pc[p] \in RedisOps /\ pc'[p] = "idle" /\ frame'[p].fell_back)
          => /\ ~frame'[p].raised
             /\ result'[p] =
                    check_local_limit(local_buckets[p], local_burst_tokens[p],
                                      frame[p].key, frame[p].limit,
                                      frame[p].cost, now).ret]_vars

\* A call whose store operation raised and which the local backend denied.
C10_Witness ==
    \E p \in DOMAIN pc :
        /\ Returned(p) /\ frame[p].fell_back /\ ~frame[p].raised
        /\ ~result[p].allowed

\* An instance that was given a Redis client writes its own dicts only in
\* the except clause of _check_redis_limit, and _check_local_limit creates
\* the key's bucket on every path: a non-empty local_buckets[p] says that a
\* call of p has fallen back to the local backend.
HasFallenBack(p) == has_redis[p] /\ DOMAIN local_buckets[p] # {}

\* C11: once a call of instance p has fallen back to the local backend, every
\* call of p that returns afterwards was decided by the local backend (the
\* store decides none of them).
C11_StickyFallback ==
    \A p \in DOMAIN pc :
        (HasFallenBack(p) /\ Returned(p)) => frame[p].fell_back

\* C12: a scope entry whose check is denied raises RateLimitExceeded carrying
\* the denial's retry_after and metadata and starts no block; a block runs
\* only after an admitted check.
C12_LimitIsGate ==
    /\ \A i \in 1..Len(hist) :
           (hist[i].op = "enter" /\ ~hist[i].decision.allowed)
           => /\ hist[i].raised
              /\ hist[i].exc.retry_after = hist[i].decision.retry_after
              /\ hist[i].exc.metadata = hist[i].decision
    /\ \A i \in 1..Len(hist) :
           (hist[i].op = "enter" /\ ~hist[i].raised) => hist[i].decision.allowed
    /\ \A p \in DOMAIN pc :
           pc[p] = "block" => (frame[p].metadata.allowed /\ result[p].allowed)

\* A denied entry through the decorator after an admitted one whose block
\* is still running on the other instance.
C12_Witness ==
    /\ Len(hist) >= 2
    /\ \E i \in 1..Len(hist) :
           /\ hist[i].op = "enter" /\ hist[i].via = "rate_limit"
           /\ hist[i].raised /\ hist[i].exc.retry_after >= 1
           /\ pc[hist[i].p] = "idle"
    /\ \E p \in DOMAIN pc : pc[p] = "block"

\* C13: the step that leaves a scope, by any path, changes no timestamp and
\* no burst token: the instance's dicts are what they were right after the
\* admission, and the store is what it was then, less the keys whose TTL has
\* run out since.
C13_ExitReleasesNothing ==
    [][\A p \in DOMAIN pc :
          (pc[p] = "block" /\ pc'[p] = "idle")
          => /\ local_buckets'[p] = frame[p].entry.buckets
             /\ local_burst_tokens'[p] = frame[p].entry.tokens
             /\ has_redis[p] => redis' = Live(frame[p].entry.redis, now)]_vars

\* Both instances have left a scope by an exception or a cancellation after
\* an admission that recorded a timestamp.
C13_Witness ==
    \A p \in {"local", "shared"} :
        \E i \in 1..Len(hist) :
            /\ hist[i].op = "exit" /\ hist[i].p = p /\ hist[i].via # "return"
            /\ IF p = "local"
               THEN DictGet(local_buckets[p], hist[i].key, <<>>) # <<>>
               ELSE hist[i].key \in DOMAIN redis

\* A policy with positive requests and window and a burst that is not
\* negative.
WellFormed(limit) == limit.requests > 0 /\ limit.window > 0 /\ limit.burst >= 0

\* C14: the policy table never holds a misconfigured policy, and no check is
\* evaluated against one.
C14_MisconfigRejected ==
    /\ \A lt \in DOMAIN limits : WellFormed(limits[lt])
    /\ \A i \in 1..Len(hist) :
           (hist[i].op = "is_allowed" /\ hist[i].configured)
           => WellFormed(hist[i].limit)

\* The step appends an event of the given kind to hist.
ConfigStep(op) ==
    /\ Len(hist') = Len(hist) + 1
    /\ hist'[Len(hist')].op = op

\* The policy the latest set_limit on a category gave it, if any.
LastSet(limit_type) ==
    LET sets == {i \in 1..Len(hist) :
                    hist[i].op = "set_limit" /\ hist[i].limit_type = limit_type}
    IN  IF sets = {} THEN {}
        ELSE {hist[CHOOSE i \in sets : \A j \in sets : j <= i].limit}

\* What the backend of instance p decides for a check under a given policy
\* on the state before the step.
DecidedUnder(p, limit_type, identifier, limit, cost) ==
    LET key == LimiterKey(limit_type, identifier)
    IN  IF has_redis[p]
        THEN check_redis_limit(redis, key, limit, cost, now).ret
        ELSE check_local_limit(local_buckets[p], local_burst_tokens[p], key,
                               limit, cost, now).ret

\* C15: a set_limit step gives its category the new policy, leaves the
\* policy of every other category and all window state (local dicts and
\* store) as they were; a check on a category that set_limit was called on
\* is decided under the policy of the latest such call.
C15_SetLimitTakesEffect ==
    [][/\ ConfigStep("set_limit") =>
            LET e == hist'[Len(hist')]
            IN  /\ limits'[e.limit_type] = e.limit
                /\ DOMAIN limits' = (DOMAIN limits) \cup {e.limit_type}
                /\ \A lt \in (DOMAIN limits) \ {e.limit_type} :
                       limits'[lt] = limits[lt]
                /\ UNCHANGED <<local_buckets, local_burst_tokens, redis>>
       /\ ConfigStep("is_allowed") =>
            LET e == hist'[Len(hist')]
            IN  \A limit \in LastSet(e.limit_type) :
                    e.ret = DecidedUnder(e.p, e.limit_type, "global", limit,
                                         e.cost)]_vars

\* After set_limit(0, 1, 1) and then set_limit(2, 2, 1) on one category, a
\* cost-2 check on it is admitted through the regular path (under the
\* earlier policy it is denied), while the other category has no policy.
C15_Witness ==
    /\ Len(hist) = 3
    /\ hist[1].op = "set_limit" /\ hist[1].limit = RateLimit(0, 1, 1)
    /\ hist[2].op = "set_limit" /\ hist[2].limit = RateLimit(2, 2, 1)
    /\ hist[2].limit_type = hist[1].limit_type
    /\ hist[3].op = "is_allowed" /\ hist[3].limit_type = hist[1].limit_type
    /\ hist[3].cost = 2 /\ hist[3].ret.allowed /\ ~hist[3].ret.burst_used
    /\ DOMAIN limits # ConfigTypes

\* C16: a check on a category without a policy, of any cost, is admitted
\* with remaining = 999 and changes neither the local dicts nor the store.
C16_NoPolicyAdmits ==
    [][ConfigStep("is_allowed") =>
          LET e == hist'[Len(hist')]
          IN  e.limit_type \notin DOMAIN limits
              => /\ e.ret.allowed
                 /\ e.ret.remaining = 999
                 /\ UNCHANGED <<local_buckets, local_burst_tokens, redis>>]_vars

\* Both instances have answered a cost-2 check on the category without a
\* policy, after a check that wrote window state of the other category.
C16_Witness ==
    /\ Len(hist) = 3
    /\ hist[1].op = "is_allowed" /\ hist[1].configured
    /\ hist[1].p = "shared" /\ redis # EmptyDict
    /\ \A i \in 2..3 :
           /\ hist[i].op = "is_allowed" /\ ~hist[i].configured
           /\ hist[i].cost = 2 /\ hist[i].ret.remaining = 999
    /\ hist[2].p # hist[3].p

\* What a store holds under a key: nothing or one value.
StoredAt(r, key) == IF key \in DOMAIN r THEN {r[key]} ELSE {}

\* The timestamps and burst tokens of a pair, in the dicts of instance p and
\* in the store (under the pair's key and under its burst key).
PairState(buckets, tokens, r, limit_type, identifier) ==
    LET key == LimiterKey(limit_type, identifier)
    IN  [bucket |-> DictGet(buckets, key, <<>>),
         tokens |-> IF key \in DOMAIN tokens THEN {tokens[key]} ELSE {},
         zset |-> StoredAt(r, key),
         burst |-> StoredAt(r, BurstKey(key))]

\* C17: a check on one (category, identifier) pair leaves the timestamps and
\* burst tokens of every other pair as they were, in the instance's dicts
\* and in the store.
C17_PairsAreIsolated ==
    [][Len(hist') = Len(hist) + 1 =>
          LET e == hist'[Len(hist')]
          IN  \A lt \in LimitTypes, id \in KeyIdentifiers :
                  <<lt, id>> # <<e.limit_type, e.identifier>>
                  => PairState(local_buckets'[e.p], local_burst_tokens'[e.p],
                               redis', lt, id)
                       = PairState(local_buckets[e.p], local_burst_tokens[e.p],
                                   redis, lt, id)]_vars

\* The local dicts and the decision after the first n checks of hist, run
\* one after the other from the empty dicts.
RECURSIVE Replay(_)
Replay(n) ==
    IF n = 0 THEN [buckets |-> EmptyDict, tokens |-> EmptyDict, ret |-> NoResult]
    ELSE LET s == Replay(n - 1)
             e == hist[n]
         IN  check_local_limit(s.buckets, s.tokens, e.key, e.limit, e.cost, e.t)

\* C18: the decisions of the checks that the coroutines of one process made
\* concurrently on the local backend are those of the same checks run one
\* after the other in the order they were scheduled, and the dicts they
\* leave are the same (so no more is admitted than in that sequential run).
C18_LocalChecksSerialised ==
    /\ \A n \in 1..Len(hist) : hist[n].ret = Replay(n).ret
    /\ local_buckets["proc"] = Replay(Len(hist)).buckets
    /\ local_burst_tokens["proc"] = Replay(Len(hist)).tokens

\* Two cost-1 checks of different coroutines, both created on the fresh key
\* before either ran: one admitted, the other denied.
C18_Witness ==
    /\ Len(hist) = 2
    /\ hist[1].c # hist[2].c
    /\ \A c \in Coroutines :
           /\ ncalls[c] = 1 /\ pc[c] = "idle" /\ frame[c].cost = 1
           /\ frame[c].entry.buckets = EmptyDict
    /\ hist[1].ret.allowed /\ ~hist[2].ret.allowed

\* The list without its n-th element.
WithoutNth(list, n) == SubSeq(list, 1, n - 1) \o SubSeq(list, n + 1, Len(list))

\* C19: remove with a numeric token removes and returns exactly the source
\* at that 1-based position of all(); when no source has that position
\* (token "0", positions past the end) it returns None and all() is as
\* before; after a successful add the URL is in all(), after a successful
\* remove the returned URL is not.
C19_RemoveByPosition ==
    \A i \in 1..Len(hist) :
        LET e == hist[i]
        IN  /\ (e.op = "remove" /\ IsDigit(e.arg)) =>
                  LET n == ParseInt(e.arg)
                  IN  IF n \in 1..Len(e.before)
                      THEN /\ e.removed = {e.before[n]}
                           /\ e.after = WithoutNth(e.before, n)
                      ELSE /\ e.removed = NoneValue
                           /\ e.after = e.before
            /\ (e.op = "add" /\ e.added) => e.arg \in Range(e.after)
            /\ (e.op = "remove") => \A u \in e.removed : u \notin Range(e.after)

\* C20: a check (cost >= 1) that finds burst_tokens >= cost is admitted with
\* burst_used, leaves burst_tokens lower by cost, records cost timestamps at
\* now, and reports remaining = requests - (unpruned timestamps before
\* recording), on the local and on the shared backend.
C20_BurstPath ==
    [][(Len(hist') = Len(hist) + 1 /\ hist'[Len(hist')].op = "is_allowed") =>
          LET e == hist'[Len(hist')]
              lw == LocalWindow(local_buckets["local"], e.key, e.limit, now)
              lt == LocalTokens(local_burst_tokens["local"], e.key, e.limit)
              sw == SharedWindow(redis, e.key, e.limit, now)
              st == SharedTokens(redis, e.key, e.limit)
          IN  /\ lt >= e.cost =>
                    /\ e.local.allowed /\ e.local.burst_used
                    /\ LocalTokens(local_burst_tokens'["local"], e.key, e.limit)
                         = lt - e.cost
                    /\ DictGet(local_buckets'["local"], e.key, <<>>)
                         = AppendTimes(lw, now, e.cost)
                    /\ e.local.remaining = e.limit.requests - Len(lw)
              /\ st >= e.cost =>
                    /\ e.shared.allowed /\ e.shared.burst_used
                    /\ SharedTokens(redis', e.key, e.limit) = st - e.cost
                    /\ Cardinality(SharedWindow(redis', e.key, e.limit, now))
                         = Cardinality(sw) + e.cost
                    /\ now \in SharedWindow(redis', e.key, e.limit, now)
                    /\ e.shared.remaining = e.limit.requests - Cardinality(sw)]_vars

\* C21: a check (cost >= 1) that finds burst_tokens < cost and
\* current_count + cost <= requests is admitted without burst_used, the key's
\* unpruned timestamps grow by exactly cost, and burst_tokens ends at the
\* burst capacity when it was below it, on the local and on the shared backend.
C21_RegularPath ==
    [][(Len(hist') = Len(hist) + 1 /\ hist'[Len(hist')].op = "is_allowed") =>
          LET e == hist'[Len(hist')]
              lw == LocalWindow(local_buckets["local"], e.key, e.limit, now)
              lt == LocalTokens(local_burst_tokens["local"], e.key, e.limit)
              sw == SharedWindow(redis, e.key, e.limit, now)
              st == SharedTokens(redis, e.key, e.limit)
          IN  /\ (lt < e.cost /\ Len(lw) + e.cost <= e.limit.requests) =>
                    /\ e.local.allowed /\ ~e.local.burst_used
                    /\ Len(LocalWindow(local_buckets'["local"], e.key, e.limit, now))
                         = Len(lw) + e.cost
                    /\ LocalTokens(local_burst_tokens'["local"], e.key, e.limit)
                         = Max(lt, e.limit.burst)
              /\ (st < e.cost /\ Cardinality(sw) + e.cost <= e.limit.requests) =>
                    /\ e.shared.allowed /\ ~e.shared.burst_used
                    /\ Cardinality(SharedWindow(redis', e.key, e.limit, now))
                         = Cardinality(sw) + e.cost
                    /\ SharedTokens(redis', e.key, e.limit)
                         = Max(st, e.limit.burst)]_vars

\* The timestamps a denial of backend b left on the key, and the time left
\* (in ticks) until the oldest of them is one window old.
TimesLeft(e, b) ==
    IF b = "local" THEN Range(e.local_bucket) ELSE e.shared_zset
TicksUntilOldestLeaves(e, b) ==
    e.limit.window * TicksPerSecond - (e.t - SetMin(TimesLeft(e, b)))

C23_BurstCounterNonNegative ==
    /\ \A p \in DOMAIN local_burst_tokens :
         \A k \in DOMAIN local_burst_tokens[p] : local_burst_tokens[p][k] >= 0
    /\ \A lt \in DOMAIN limits, id \in Identifiers :
         LET bk == BurstKey(LimiterKey(lt, id))
         IN  bk \in DOMAIN redis => redis[bk].str >= 0

\* The number of the key's timestamps, before a check at time t, that are
\* not older than t - window (window in ticks).
InWindowLocal(buckets, key, window_start) ==
    LET bucket == DictGet(buckets, key, <<>>)
    IN  Cardinality({i \in 1..Len(bucket) : bucket[i] >= window_start})
InWindowShared(r, key, window_start) ==
    IF key \in DOMAIN r
    THEN Cardinality({x \in r[key].zset : x >= window_start})
    ELSE 0

\* The count a decision was taken with, as its remaining shows it: requests
\* minus remaining, less what the path recorded before it computed remaining.
CountShown(e, b) ==
    LET d == Dec(e, b)
    IN  e.limit.requests - d.remaining
          - (IF ~d.burst_used THEN e.cost ELSE IF b = "local" THEN 1 ELSE 0)

\* C24: every check prunes before it decides: the count it decides with
\* counts only timestamps t >= now - window, and after the check the key
\* holds no timestamp older than now - window, on both backends.
C24_PruneBeforeDecide ==
    [][(Len(hist') = Len(hist) + 1) =>
          LET e == hist'[Len(hist')]
              window_start == now - e.limit.window * TicksPerSecond
              lin == InWindowLocal(local_buckets["local"], e.key, window_start)
              sin == InWindowShared(redis, e.key, window_start)
          IN  /\ \A t \in Range(e.local_bucket) \cup e.shared_zset :
                    t >= window_start
              /\ e.local.allowed => CountShown(e, "local") \in 0..lin
              /\ e.shared.allowed => CountShown(e, "shared") \in 0..sin
              /\ ~e.local.allowed => lin + e.cost > e.limit.requests
              /\ ~e.shared.allowed => sin + e.cost > e.limit.requests]_vars

\* A check admitted on both backends by the regular path while the key still
\* held a timestamp older than now - window.
C24_Witness ==
    /\ Len(hist) >= 2
    /\ LET e == hist[Len(hist)]
           f == hist[Len(hist) - 1]
       IN  /\ \A b \in Backends : Dec(e, b).allowed /\ ~Dec(e, b).burst_used
           /\ \A b \in Backends : Dec(f, b).allowed
           /\ \E t \in Range(f.local_bucket) :
                 t < e.t - e.limit.window * TicksPerSecond
           /\ \E t \in f.shared_zset :
                 t < e.t - e.limit.window * TicksPerSecond

\* The total cost of the checks hist[1..k] that backend b admitted later
\* than time since.
RECURSIVE AdmittedCost(_, _, _)
AdmittedCost(b, k, since) ==
    IF k = 0 THEN 0
    ELSE AdmittedCost(b, k - 1, since)
           + (IF Dec(hist[k], b).allowed /\ hist[k].t > since
              THEN hist[k].cost ELSE 0)

\* C25: under a fixed policy, at every check the total cost of the checks
\* admitted on the key within the trailing window of window seconds is at
\* most requests + burst, on both backends.
C25_WindowTotalBounded ==
    \A b \in Backends : \A i \in 1..Len(hist) :
        AdmittedCost(b, i, hist[i].t - hist[i].limit.window)
            <= hist[i].limit.requests + hist[i].limit.burst

\* C26: a check (cost <= requests) denied at time t with retry_after, and
\* repeated with the same cost at t + retry_after as the next check on the
\* key, is admitted, on both backends.
C26_RetryAfterSuffices ==
    \A b \in Backends : \A i \in 2..Len(hist) :
        LET d == hist[i - 1]
            e == hist[i]
        IN  (/\ d.op = "is_allowed" /\ e.op = "is_allowed"
             /\ e.cost = d.cost /\ d.cost <= d.limit.requests
             /\ ~Dec(d, b).allowed
             /\ e.t = d.t + Dec(d, b).retry_after * TicksPerSecond)
            => Dec(e, b).allowed

\* C27: a check with 1 <= cost <= requests issued more than window after the
\* last admitted check on its key (zero-cost checks included) is admitted, on
\* both backends.
C27_NoPermanentLockout ==
    \A b \in Backends : \A j \in 2..Len(hist) :
        (/\ hist[j].op = "is_allowed"
         /\ hist[j].cost \in 1..hist[j].limit.requests
         /\ \E t \in LastAdmittedBefore(j, b) :
                hist[j].t > t + hist[j].limit.window)
        => Dec(hist[j], b).allowed

\* A cost-2 check denied on both backends and, more than window after the
\* last admitted check, a cost-2 check admitted on both.
C27_Witness ==
    /\ Len(hist) >= 3
    /\ LET j == Len(hist)
       IN  /\ IsCheck(hist[j], 2) /\ IsCheck(hist[j - 1], 2)
           /\ \A b \in Backends :
                /\ ~Dec(hist[j - 1], b).allowed
                /\ \E t \in LastAdmittedBefore(j, b) :
                       hist[j].t > t + hist[j].limit.window
                /\ Dec(hist[j], b).allowed /\ ~Dec(hist[j], b).burst_used

\* What the call of p has charged since its start (frame[p].entry): a
\* timestamp recorded or burst tokens taken, in the store and in p's dicts.
SharedCharged(p) ==
    LET f == frame[p]
        zbefore == IF f.key \in DOMAIN f.entry.redis
                   THEN f.entry.redis[f.key].zset ELSE {}
        zafter == IF f.key \in DOMAIN redis THEN redis[f.key].zset ELSE {}
    IN  \/ ~(zafter \subseteq zbefore)
        \/ SharedTokens(redis, f.key, f.limit)
             < SharedTokens(f.entry.redis, f.key, f.limit)
LocalCharged(p) ==
    LET f == frame[p]
        before == DictGet(f.entry.buckets, f.key, <<>>)
        after == DictGet(local_buckets[p], f.key, <<>>)
    IN  \/ \E i \in 1..Len(after) :
               Multiplicity(after, after[i]) > Multiplicity(before, after[i])
        \/ LocalTokens(local_burst_tokens[p], f.key, f.limit)
             < LocalTokens(f.entry.tokens, f.key, f.limit)

\* C28: no call of is_allowed charges the store and the local dicts both.
C28_OneBackendCharged ==
    \A p \in DOMAIN pc :
        Returned(p) => ~(SharedCharged(p) /\ LocalCharged(p))

\* Quota of category limit_type taken from user's key between two limiter
\* states: a timestamp recorded or burst tokens removed, in the instance's
\* dicts or in the store.
QuotaConsumed(before, after, limit_type, user) ==
    LET key == LimiterKey(limit_type, user)
        limit == limits[limit_type]
        b == DictGet(before.buckets, key, <<>>)
        a == DictGet(after.buckets, key, <<>>)
        zb == IF key \in DOMAIN before.redis THEN before.redis[key].zset ELSE {}
        za == IF key \in DOMAIN after.redis THEN after.redis[key].zset ELSE {}
    IN  \/ \E i \in 1..Len(a) : Multiplicity(a, a[i]) > Multiplicity(b, a[i])
        \/ LocalTokens(after.tokens, key, limit)
             < LocalTokens(before.tokens, key, limit)
        \/ ~(za \subseteq zb)
        \/ SharedTokens(after.redis, key, limit)
             < SharedTokens(before.redis, key, limit)

\* C29: a command rejected with RateLimitExceeded by either of its two limits
\* has consumed no quota from either: the timestamps and burst tokens of both
\* keys are as before the command.
C29_RejectedCommandIsFree ==
    \A i \in 1..Len(hist) :
        LET e == hist[i]
        IN  e.rejected_by # 0 =>
              /\ ~QuotaConsumed(e.before, e.after, e.first_type, e.user)
              /\ ~QuotaConsumed(e.before, e.after, e.second_type, e.user)

\* C30: the remaining value of every check of a configured category
\* (admitted or denied, cost 0 included) is in 0..requests, on both backends.
C30_RemainingInRange ==
    \A b \in Backends : \A i \in 1..Len(hist) :
        Dec(hist[i], b).remaining \in 0..hist[i].limit.requests

====
